---------------------------- MODULE Spec2Model ----------------------------
(***************************************************************************)
(* A model of decode.bundle.js: the Player session controller (module      *)
(* 0x2c), the Mp4Player backend selector (module 0x22df), the AES-CTR      *)
(* cipher (module 0x942), the atob patch (module 0xa10) and the            *)
(* DevtoolsDetector poll loop (module 0x26b).                              *)
(*                                                                         *)
(* JavaScript is single-threaded: every action below is one run-to-        *)
(* completion step, i.e. the code between two awaits (or a whole           *)
(* synchronous method).                                                    *)
(***************************************************************************)
EXTENDS Integers, Sequences, FiniteSets, TLC

VARIABLES
    env,            \* facts of the page and the browser read by Player / Mp4Player
    tracker,        \* Player: let tracker (0 = null, else index in trackers)
    playerInstance, \* Player: let playerInstance (0 = null, else index in mp4s)
    isDestroyed,    \* Player: let isDestroyed
    options,        \* Player: let options
    player,         \* Player: mediaManager.player (0 = null, else index in mp4s)
    trackers,       \* every Tracker object created so far
    mp4s,           \* every Mp4Player object created so far
    backends,       \* every backend (Mp4PlayerSW/Box/Native/Video) created so far
    swm,            \* the Player's ServiceWorkerManager
    notifications,  \* the reasons passed to showSecurityWarning, in order
    calls,          \* the setup() calls made so far, each with its position
    nDestroyCalls,  \* how many times destroy() was called from outside
    loaded,         \* main entry: the bundle's entry point has run
    atobLayers,     \* how many tolerant wrappers patchAtob has put around window.atob
    cryptoKey,      \* AesCtrCipher: let cryptoKey (<<>> = null, else the imported bytes)
    aesCounter,     \* AesCtrCipher: aesConfig.counter (<<>> = not set)
    imports,        \* AesCtrCipher: the key data of the expandKey calls awaiting importKey
    everExpanded,   \* whether some expandKey call has returned true
    last,           \* the last call on the cipher: its argument, its result, the key
                    \* and counter it used; for a decrypt of what the encrypt call
                    \* right before it returned, that encrypt call as well
    crypts,         \* the encrypt / decrypt calls awaiting the engine, in call order
    secretsUsed     \* the non-empty secrets expandKey was called with so far
VARIABLES
    listeners,         \* DevtoolsDetector: this.listeners ("returns" or "throws" each)
    isOpen,            \* this.isOpen
    detectLoopStopped, \* this.detectLoopStopped
    detectLoopDelay,   \* this.detectLoopDelay
    timer,             \* this.timer (0 = undefined, else the id of a timeout)
    timers,            \* the timeouts set and neither fired nor cleared
    nTimers,           \* how many timeouts were set so far
    cycles,            \* the detectLoop calls in progress, each with its locals
    nPolls,            \* how many detectLoop calls were made so far
    broadcasts,        \* the broadcast call of the poll cycle that ended last (if it
                       \* made one)
    delivered,         \* the isOpen value of the latest broadcast call: "open" or
                       \* "closed" ("none" before the first call)
    stopReturned,      \* stop() has returned and launch() was not called since
    lastCycle,         \* what the detector's latest step did, if it ended a poll
                       \* cycle (its decision and what it sent) or was a call of
                       \* launch() (the state it was called in)
    runs               \* per launch() that started the loop: the decision of its last
                       \* poll, and whether a poll of it has decided open
VARIABLES
    device,            \* antiDevTools: isTouchDevice and isDesktop of this page load
    devtool,           \* sessionStorage item "devtool" ("open" or "unset")
    anti,              \* antiDevTools of this load: the branch it took, its locals,
                       \* its intervals, the warnings it has shown
    loads              \* how many times the page was loaded in this tab

playerVars == <<tracker, playerInstance, isDestroyed, options, player,
                trackers, mp4s, backends, swm, notifications>>

sessionVars == <<env, tracker, playerInstance, isDestroyed, options, player,
                 trackers, mp4s, backends, swm, notifications, calls, nDestroyCalls>>

cipherVars == <<loaded, atobLayers, cryptoKey, aesCounter, imports, everExpanded, last,
                crypts, secretsUsed>>

detectorVars == <<listeners, isOpen, detectLoopStopped, detectLoopDelay, timer, timers,
                  nTimers, cycles, nPolls, broadcasts, delivered, stopReturned,
                  lastCycle, runs>>

antiVars == <<device, devtool, anti, loads>>

vars == <<sessionVars, cipherVars, detectorVars, antiVars>>

\* What the actions of one component leave alone.
notSession == <<cipherVars, detectorVars, antiVars>>

notCipher == <<sessionVars, detectorVars, antiVars>>

notDetector == <<sessionVars, cipherVars, antiVars>>

(***************************************************************************)
(* Bounds of the model.                                                    *)
(***************************************************************************)
MaxSetupCalls == 2
MaxDestroyCalls == 2
MaxBackends == 3
MaxPendingImports == 2
MaxInFlight == 2
MaxPolls == 2
MaxListeners == 2
NumCheckers == 2
MaxLoads == 2

\* The default of detectLoopDelay, in milliseconds.
DefaultDelay == 500

(***************************************************************************)
(* Values.                                                                 *)
(***************************************************************************)
Undefined == "undefined"

ReasonUnsupported == "Your browser does not support this player"
ReasonNotFramed == "This player can only be run in an iframe or on localhost."
ReasonInsecure ==
    "This video player can't work properly on unsecure websites. For your safety, please use a website that is protected with HTTPS."
ReasonNoSources == "No playable sources found"
ReasonDefault == "Player has been destroyed"

\* The reasons an outside caller passes to destroy(reason).
Reasons == {Undefined, "Security alert"}

\* A source of config.sources is "mp4" or "webm" (an object of that type) or
\* "null" (a falsy entry).
\* The values of config.sources the model draws from: has tells whether config
\* has a sources array at all.
ConfigSources ==
    {[has |-> FALSE, list |-> <<>>], [has |-> TRUE, list |-> <<"webm">>],
     [has |-> TRUE, list |-> <<"mp4">>], [has |-> TRUE, list |-> <<"null", "webm", "mp4">>]}

\* options: the keys the object holds and the value of its sources key.
EmptyOptions == [keys |-> {}, sources |-> <<>>]

EnvFlags == {"canPlayType", "jwplayer", "isSecureContext", "isIframed", "isLocalhost",
             "serviceWorker", "MediaSource", "isEdgeAndroid", "isHeyTapBrowser",
             "isChromeVersionOk"}

(***************************************************************************)
(* Text and bytes.  A string is the sequence of its code points, a byte    *)
(* array the sequence of its bytes.  A value passed to or returned by the  *)
(* cipher is [t |-> "str" | "bin" | "null", v |-> the sequence].           *)
(***************************************************************************)
Str(s) == [t |-> "str", v |-> s]

Bin(b) == [t |-> "bin", v |-> b]

Null == [t |-> "null", v |-> <<>>]

\* JavaScript truthiness of a value: null and "" are falsy, every Uint8Array
\* (the empty one too) is truthy.
Truthy(d) == d.t = "bin" \/ (d.t = "str" /\ d.v # <<>>)

RECURSIVE XorBits(_, _, _)
XorBits(a, b, n) ==
    IF n = 0 THEN 0
    ELSE (((a % 2) + (b % 2)) % 2) + 2 * XorBits(a \div 2, b \div 2, n - 1)

\* The exclusive or of two bytes.
Xor8(a, b) == XorBits(a, b, 8)

\* TextEncoder.encode of one code point.
Utf8OfCodePoint(c) ==
    IF c < 128 THEN <<c>>
    ELSE IF c < 2048 THEN <<192 + (c \div 64), 128 + (c % 64)>>
    ELSE IF c >= 55296 /\ c < 57344 THEN <<239, 191, 189>>
    ELSE IF c < 65536 THEN <<224 + (c \div 4096), 128 + ((c \div 64) % 64), 128 + (c % 64)>>
    ELSE <<240 + (c \div 262144), 128 + ((c \div 4096) % 64),
           128 + ((c \div 64) % 64), 128 + (c % 64)>>

RECURSIVE TextEncode(_)
TextEncode(s) ==
    IF s = <<>> THEN <<>> ELSE Utf8OfCodePoint(Head(s)) \o TextEncode(Tail(s))

\* The UTF-8 decoder of TextDecoder: after a lead byte, need continuation bytes
\* are still to come, cp is the code point so far and the next byte must lie in
\* lo..hi; an ill-formed sequence yields U+FFFD and the offending byte is read
\* again as a lead byte.
RECURSIVE Utf8Decode(_, _, _, _, _)
Utf8Decode(b, need, cp, lo, hi) ==
    IF b = <<>> THEN (IF need = 0 THEN <<>> ELSE <<65533>>)
    ELSE LET x == Head(b) IN
         IF need = 0
         THEN IF x < 128 THEN <<x>> \o Utf8Decode(Tail(b), 0, 0, 128, 191)
              ELSE IF x >= 194 /\ x <= 223 THEN Utf8Decode(Tail(b), 1, x % 32, 128, 191)
              ELSE IF x >= 224 /\ x <= 239
                   THEN Utf8Decode(Tail(b), 2, x % 16,
                                   IF x = 224 THEN 160 ELSE 128, IF x = 237 THEN 159 ELSE 191)
              ELSE IF x >= 240 /\ x <= 244
                   THEN Utf8Decode(Tail(b), 3, x % 8,
                                   IF x = 240 THEN 144 ELSE 128, IF x = 244 THEN 143 ELSE 191)
              ELSE <<65533>> \o Utf8Decode(Tail(b), 0, 0, 128, 191)
         ELSE IF x < lo \/ x > hi THEN <<65533>> \o Utf8Decode(b, 0, 0, 128, 191)
              ELSE IF need = 1
                   THEN <<cp * 64 + (x % 64)>> \o Utf8Decode(Tail(b), 0, 0, 128, 191)
              ELSE Utf8Decode(Tail(b), need - 1, cp * 64 + (x % 64), 128, 191)

\* new TextDecoder().decode(bytes): a leading byte order mark is dropped.
TextDecode(b) ==
    IF Len(b) >= 3 /\ SubSeq(b, 1, 3) = <<239, 187, 191>>
    THEN Utf8Decode(SubSeq(b, 4, Len(b)), 0, 0, 128, 191)
    ELSE Utf8Decode(b, 0, 0, 128, 191)

(***************************************************************************)
(* window.atob and its patch (module 0xa10).                               *)
(***************************************************************************)
IsAsciiSpace(c) == c \in {9, 10, 12, 13, 32}

\* The value of a character of the base64 alphabet, -1 for any other.
Base64Value(c) ==
    IF c >= 65 /\ c <= 90 THEN c - 65
    ELSE IF c >= 97 /\ c <= 122 THEN c - 71
    ELSE IF c >= 48 /\ c <= 57 THEN c + 4
    ELSE IF c = 43 THEN 62
    ELSE IF c = 47 THEN 63
    ELSE -1

NotAsciiSpace(c) == ~IsAsciiSpace(c)

\* The browser's forgiving-base64 decode, first steps: white space is removed,
\* then one or two "=" at the end of a text whose length is a multiple of 4.
Base64Stripped(s) ==
    LET t == SelectSeq(s, NotAsciiSpace)
        n == Len(t)
    IN  IF n > 0 /\ n % 4 = 0 /\ t[n] = 61
        THEN IF t[n - 1] = 61 THEN SubSeq(t, 1, n - 2) ELSE SubSeq(t, 1, n - 1)
        ELSE t

Base64Valid(s) ==
    LET t == Base64Stripped(s) IN
    /\ Len(t) % 4 # 1
    /\ \A i \in 1..Len(t) : Base64Value(t[i]) >= 0

RECURSIVE Base64Bytes(_)
Base64Bytes(t) ==
    LET v(i) == Base64Value(t[i]) IN
    IF Len(t) >= 4
    THEN <<v(1) * 4 + (v(2) \div 16), (v(2) % 16) * 16 + (v(3) \div 4), (v(3) % 4) * 64 + v(4)>>
         \o Base64Bytes(SubSeq(t, 5, Len(t)))
    ELSE IF Len(t) = 3 THEN <<v(1) * 4 + (v(2) \div 16), (v(2) % 16) * 16 + (v(3) \div 4)>>
    ELSE IF Len(t) = 2 THEN <<v(1) * 4 + (v(2) \div 16)>>
    ELSE <<>>

\* The browser's atob: the binary string, or an InvalidCharacterError.
originalAtob(s) ==
    IF Base64Valid(s) THEN [threw |-> FALSE, v |-> Base64Bytes(Base64Stripped(s))]
    ELSE [threw |-> TRUE, v |-> <<>>]

\* window.atob as it stands: under at least one wrapper of patchAtob an
\* exception of the original becomes "".
windowAtob(s) ==
    IF atobLayers > 0 /\ originalAtob(s).threw THEN [threw |-> FALSE, v |-> <<>>]
    ELSE originalAtob(s)

\* The mutant of patchAtob: no wrapper is installed.
patchAtobSkipped(layers) == layers

\* patchAtob(): window.atob is replaced by a wrapper around the current one.
patchAtob(layers) == layers + 1

(***************************************************************************)
(* The digest and the cipher engine AesCtrCipher relies on.                *)
(***************************************************************************)
HexDigit(n) == IF n < 10 THEN 48 + n ELSE 87 + n

RECURSIVE WeightedSum(_, _)
WeightedSum(s, w) ==
    IF s = <<>> THEN 0 ELSE (Head(s) * w + WeightedSum(Tail(s), w + 2)) % 256

\* md5(keyString): the text of 32 lower-case hexadecimal digits of a 128-bit
\* digest.  The digest itself is a stand-in for MD5: a fixed function of the
\* message that tells the model's secrets apart.
md5(message) ==
    [i \in 1..32 |->
        HexDigit(((WeightedSum(message, 2 * ((i + 1) \div 2) + 1) + 37 * ((i + 1) \div 2)
                   + Len(message)) \div (IF i % 2 = 1 THEN 16 ELSE 1)) % 16)]

\* Byte j (0..15) of the keystream block blk of AES-CTR under a key and an
\* initial counter block: a stand-in for the block cipher, a fixed function of
\* the key, of the counter block advanced by blk, and of the position.
KeystreamByte(key, counter, blk, j) ==
    (key[(j % Len(key)) + 1] * 7 + key[((j + blk) % Len(key)) + 1] * 3
     + counter[((j + 5) % Len(counter)) + 1] * 11 + counter[Len(counter)] + blk * 101
     + j * 13) % 256

\* crypto.subtle.encrypt and crypto.subtle.decrypt in counter mode are the same
\* transform: the data xor the keystream; no padding.
CtrTransform(key, counter, data) ==
    [i \in 1..Len(data) |->
        Xor8(data[i], KeystreamByte(key, counter, (i - 1) \div 16, (i - 1) % 16))]

(***************************************************************************)
(* AesCtrCipher (module 0x942) and the bundle's entry point.               *)
(***************************************************************************)
\* The mutant of encrypt: a string is not UTF-8 encoded, its char codes are
\* taken as the bytes.
encryptCharCodes(data) ==
    IF ~Truthy(data) \/ cryptoKey = <<>> THEN [threw |-> FALSE, out |-> data]
    ELSE LET bytes == [i \in 1..Len(data.v) |-> data.v[i] % 256]
         IN  [threw |-> FALSE, out |-> Str(CtrTransform(cryptoKey, aesCounter, bytes))]

\* this.encrypt(data): what it returns, or that it throws.
encrypt(data) ==
    IF ~Truthy(data) \/ cryptoKey = <<>> THEN [threw |-> FALSE, out |-> data]
    ELSE LET bytes == IF data.t = "str" THEN TextEncode(data.v) ELSE data.v
         IN  [threw |-> FALSE, out |-> Str(CtrTransform(cryptoKey, aesCounter, bytes))]

\* The mutant of decrypt: the test of cryptoKey is gone, and the engine throws
\* on a null key.
decryptNoKeyTest(data) ==
    IF ~Truthy(data) THEN [threw |-> FALSE, out |-> data]
    ELSE IF cryptoKey = <<>> THEN [threw |-> TRUE, out |-> Null]
    ELSE IF data.t = "str"
         THEN LET binaryString == windowAtob(data.v) IN
              IF binaryString.threw THEN [threw |-> TRUE, out |-> Null]
              ELSE [threw |-> FALSE,
                    out |-> Str(TextDecode(CtrTransform(cryptoKey, aesCounter, binaryString.v)))]
    ELSE [threw |-> FALSE, out |-> Bin(CtrTransform(cryptoKey, aesCounter, data.v))]

\* this.decrypt(data): what it returns, or that it throws.
decrypt(data) ==
    IF ~Truthy(data) \/ cryptoKey = <<>> THEN [threw |-> FALSE, out |-> data]
    ELSE IF data.t = "str"
         THEN LET binaryString == windowAtob(data.v) IN
              IF binaryString.threw THEN [threw |-> TRUE, out |-> Null]
              ELSE [threw |-> FALSE,
                    out |-> Str(TextDecode(CtrTransform(cryptoKey, aesCounter, binaryString.v)))]
    ELSE [threw |-> FALSE, out |-> Bin(CtrTransform(cryptoKey, aesCounter, data.v))]

\* The secrets, plaintexts and decrypt arguments the model draws from.
Secrets == {<<>>, <<107, 49>>, <<107, 50>>}

Text16 == <<48, 49, 50, 51, 52, 53, 54, 55, 56, 57, 97, 98, 99, 100, 101, 102>>

Plaintexts ==
    {Null, Str(<<>>), Str(<<120>>), Str(<<233>>), Str(Text16), Str(Text16 \o <<103>>),
     Bin(<<>>), Bin(<<200>>), Bin(Text16 \o <<255>> \o Text16)}

\* "QQ==", "QUI", "QUJD", "n-t!", "Q", "QQ=Q", " " as texts.
DecryptTexts ==
    {Str(<<81, 81, 61, 61>>), Str(<<81, 85, 73>>), Str(<<81, 85, 74, 68>>),
     Str(<<110, 45, 116, 33>>), Str(<<81>>), Str(<<81, 81, 61, 81>>), Str(<<32>>)}

\* A decrypt argument: null, "", a text, a byte array, what the encrypt call
\* right before returned, or the bytes of what it returned.
DecryptArguments ==
    {Null, Str(<<>>), Bin(<<>>), Bin(<<7, 250>>)} \cup DecryptTexts
    \cup (IF last.op = "encrypt" THEN {last.out, Bin(last.out.v)} ELSE {})

NoCall == [op |-> "none"]

\* The bundle's entry point, one synchronous run: patchAtob() and then
\* window.SoTrym, through which every user of the cipher is created.
MainEntry ==
    /\ ~loaded
    /\ atobLayers' = patchAtob(atobLayers)
    /\ loaded' = TRUE
    /\ UNCHANGED <<cryptoKey, aesCounter, imports, everExpanded, last, crypts, secretsUsed>>
    /\ UNCHANGED notCipher

\* expandKey(keyString), to its return or to `await crypto.subtle.importKey`.
ExpandKeyCall(keyString) ==
    /\ loaded
    /\ Len(imports) < MaxPendingImports
    /\ IF keyString = <<>>
       THEN /\ last' = [op |-> "expandKey", arg |-> keyString, returned |-> "false"]
            /\ UNCHANGED <<aesCounter, imports, secretsUsed>>
       ELSE LET keyData == TextEncode(md5(keyString)) IN
            /\ aesCounter' = SubSeq(keyData, 1, 16)
            /\ imports' = Append(imports, [keyString |-> keyString, keyData |-> keyData])
            /\ last' = [op |-> "expandKey", arg |-> keyString, returned |-> "pending"]
            /\ secretsUsed' = secretsUsed \cup {keyString}
    /\ UNCHANGED <<loaded, atobLayers, cryptoKey, everExpanded, crypts>>
    /\ UNCHANGED notCipher

\* importKey of the pending call i settles: fulfilled (ok) or rejected.
ExpandKeySettled(i, ok) ==
    /\ i \in 1..Len(imports)
    /\ cryptoKey' = IF ok THEN imports[i].keyData ELSE cryptoKey
    /\ everExpanded' = (everExpanded \/ ok)
    /\ imports' = SubSeq(imports, 1, i - 1) \o SubSeq(imports, i + 1, Len(imports))
    /\ last' = [op |-> "expandKey", arg |-> imports[i].keyString,
                returned |-> IF ok THEN "true" ELSE "false"]
    /\ UNCHANGED <<loaded, atobLayers, aesCounter, crypts, secretsUsed>>
    /\ UNCHANGED notCipher

\* One encrypt call; the engine reads the key and the counter when it is called.
EncryptCall(data) ==
    /\ loaded
    /\ last' = [op |-> "encrypt", arg |-> data, out |-> encrypt(data).out,
                threw |-> encrypt(data).threw, key |-> cryptoKey, counter |-> aesCounter,
                expanded |-> everExpanded]
    /\ UNCHANGED <<loaded, atobLayers, cryptoKey, aesCounter, imports, everExpanded, crypts,
                   secretsUsed>>
    /\ UNCHANGED notCipher

\* One decrypt call.
DecryptCall(data) ==
    /\ loaded
    /\ last' = [op |-> "decrypt", arg |-> data, out |-> decrypt(data).out,
                threw |-> decrypt(data).threw, key |-> cryptoKey, counter |-> aesCounter,
                expanded |-> everExpanded,
                of |-> IF last.op = "encrypt" /\ data \in {last.out, Bin(last.out.v)}
                       THEN last ELSE NoCall]
    /\ UNCHANGED <<loaded, atobLayers, cryptoKey, aesCounter, imports, everExpanded, crypts,
                   secretsUsed>>
    /\ UNCHANGED notCipher

(***************************************************************************)
(* encrypt and decrypt with their await: a call runs to                    *)
(* `await crypto.subtle.encrypt / decrypt`, which is handed the key, a copy *)
(* of the algorithm parameters and a copy of the data, and the call        *)
(* resumes when the engine's promise settles.  Calls may overlap.          *)
(***************************************************************************)
\* The arguments of the overlapping calls: "x" and 17 bytes (two blocks) to
\* encrypt, "QQ==" and 2 bytes to decrypt.
OverlapPlaintexts == {Str(<<120>>), Bin(Text16 \o <<255>>)}

OverlapCiphertexts == {Str(<<81, 81, 61, 61>>), Bin(<<7, 250>>)}

\* A counter block advanced by n blocks (its last byte only).
AdvancedCounter(counter, n) ==
    IF counter = <<>> THEN counter
    ELSE [counter EXCEPT ![Len(counter)] = (@ + n) % 256]

\* A call that returns without the engine: its record in last.
ReturnedAtOnce(op, data, threw) ==
    [op |-> op, arg |-> data, out |-> IF threw THEN Null ELSE data, threw |-> threw,
     key |-> cryptoKey, counter |-> aesCounter, expanded |-> everExpanded,
     startedWith |-> Len(crypts), settledWith |-> Len(crypts)]

\* A call that awaits the engine, handed bytes.
AwaitingEngine(op, data, bytes) ==
    [op |-> op, arg |-> data, bytes |-> bytes, key |-> cryptoKey, counter |-> aesCounter,
     startedWith |-> Len(crypts)]

\* The mutant of EncryptStart: the engine is one shared stateful counter-mode
\* object, and each call moves the shared counter on by the blocks it used.
EncryptStartSharedCounter(data) ==
    /\ loaded
    /\ Len(crypts) < MaxInFlight
    /\ IF ~Truthy(data) \/ cryptoKey = <<>>
       THEN /\ last' = ReturnedAtOnce("encrypt", data, FALSE)
            /\ UNCHANGED <<crypts, aesCounter>>
       ELSE LET bytes == IF data.t = "str" THEN TextEncode(data.v) ELSE data.v IN
            /\ crypts' = Append(crypts, AwaitingEngine("encrypt", data, bytes))
            /\ aesCounter' = AdvancedCounter(aesCounter, (Len(bytes) + 15) \div 16)
            /\ UNCHANGED last
    /\ UNCHANGED <<loaded, atobLayers, cryptoKey, imports, everExpanded, secretsUsed>>
    /\ UNCHANGED notCipher

\* encrypt(data), to its return or to `await crypto.subtle.encrypt`.
EncryptStart(data) ==
    /\ loaded
    /\ Len(crypts) < MaxInFlight
    /\ IF ~Truthy(data) \/ cryptoKey = <<>>
       THEN /\ last' = ReturnedAtOnce("encrypt", data, FALSE)
            /\ UNCHANGED crypts
       ELSE LET bytes == IF data.t = "str" THEN TextEncode(data.v) ELSE data.v IN
            /\ crypts' = Append(crypts, AwaitingEngine("encrypt", data, bytes))
            /\ UNCHANGED last
    /\ UNCHANGED <<loaded, atobLayers, cryptoKey, aesCounter, imports, everExpanded,
                   secretsUsed>>
    /\ UNCHANGED notCipher

\* decrypt(data), to its return or to `await crypto.subtle.decrypt`; window.atob
\* runs before the await.
DecryptStart(data) ==
    /\ loaded
    /\ Len(crypts) < MaxInFlight
    /\ IF ~Truthy(data) \/ cryptoKey = <<>>
       THEN /\ last' = ReturnedAtOnce("decrypt", data, FALSE)
            /\ UNCHANGED crypts
       ELSE IF data.t = "str" /\ windowAtob(data.v).threw
       THEN /\ last' = ReturnedAtOnce("decrypt", data, TRUE)
            /\ UNCHANGED crypts
       ELSE LET bytes == IF data.t = "str" THEN windowAtob(data.v).v ELSE data.v IN
            /\ crypts' = Append(crypts, AwaitingEngine("decrypt", data, bytes))
            /\ UNCHANGED last
    /\ UNCHANGED <<loaded, atobLayers, cryptoKey, aesCounter, imports, everExpanded,
                   secretsUsed>>
    /\ UNCHANGED notCipher

\* The engine's promise of the call i settles and the call runs to its return.
CryptSettled(i) ==
    /\ i \in 1..Len(crypts)
    /\ LET call == crypts[i]
           buffer == CtrTransform(call.key, call.counter, call.bytes)
       IN  last' = [op |-> call.op, arg |-> call.arg,
                    out |-> IF call.op = "encrypt" THEN Str(buffer)
                            ELSE IF call.arg.t = "str" THEN Str(TextDecode(buffer))
                            ELSE Bin(buffer),
                    threw |-> FALSE, key |-> call.key, counter |-> call.counter,
                    expanded |-> TRUE, startedWith |-> call.startedWith,
                    settledWith |-> Len(crypts) - 1]
    /\ crypts' = SubSeq(crypts, 1, i - 1) \o SubSeq(crypts, i + 1, Len(crypts))
    /\ UNCHANGED <<loaded, atobLayers, cryptoKey, aesCounter, imports, everExpanded,
                   secretsUsed>>
    /\ UNCHANGED notCipher

\* new AesCtrCipher() in a page whose bundle has not run yet.
CipherConstructed ==
    /\ loaded = FALSE
    /\ atobLayers = 0
    /\ cryptoKey = <<>>
    /\ aesCounter = <<>>
    /\ imports = <<>>
    /\ everExpanded = FALSE
    /\ last = NoCall
    /\ crypts = <<>>
    /\ secretsUsed = {}

(***************************************************************************)
(* DevtoolsDetector (module 0x26b).  A checker is known by its place in    *)
(* config.checkers, which is also its name; isEnable() and isOpen() are    *)
(* answered by the browser, each answer resuming the poll cycle that       *)
(* awaits it.                                                              *)
(***************************************************************************)
Checkers == 1..NumCheckers

\* lastCycle when the step just taken ended no poll cycle.
NoCycle == [op |-> "none"]

\* The delays setDetectDelay is called with.
Delays == {0, DefaultDelay}

\* The listeners that are called before the first one that throws, and that one.
RECURSIVE InvokedUntilThrow(_, _)
InvokedUntilThrow(ls, k) ==
    IF k > Len(ls) THEN <<>>
    ELSE IF ls[k] = "throws" THEN <<k>>
    ELSE <<k>> \o InvokedUntilThrow(ls, k + 1)

\* The mutant of Broadcast: no try / catch around the listener call, so the
\* first listener that throws ends the loop and the exception leaves broadcast.
BroadcastUncaught(status) ==
    [isOpen |-> status.isOpen, checkerName |-> status.checkerName,
     invoked |-> InvokedUntilThrow(listeners, 1),
     threw |-> \E k \in 1..Len(listeners) : listeners[k] = "throws"]

\* broadcast(status): every listener is called, in order, inside try / catch.
\* The record says what was broadcast, which listeners were called and whether
\* an exception left broadcast.
Broadcast(status) ==
    [isOpen |-> status.isOpen, checkerName |-> status.checkerName,
     invoked |-> [k \in 1..Len(listeners) |-> k],
     threw |-> FALSE]

\* isDevtoolsOpen !== this.isOpen
StateChanged(isDevtoolsOpen) == isDevtoolsOpen # isOpen

\* stop(), when this.isOpen holds cur.
stop(cur) ==
    /\ IF ~detectLoopStopped
       THEN /\ detectLoopStopped' = TRUE
            /\ isOpen' = FALSE
            /\ timers' = timers \ {timer}
       ELSE /\ isOpen' = cur
            /\ UNCHANGED <<detectLoopStopped, timers>>
    /\ stopReturned' = TRUE

\* this.detectLoopDelay > 0 && !this.detectLoopStopped
Rescheduled == detectLoopDelay > 0 /\ ~detectLoopStopped

\* detectLoop from the end of its for loop to its end, for the cycle c that
\* decided isDevtoolsOpen with checkerName after the consultations of log; openBy
\* is the checker whose isOpen() held (0 if none).  An exception that leaves
\* broadcast ends the cycle where it is.
FinishCycle(c, isDevtoolsOpen, checkerName, openBy, log) ==
    LET sent == IF StateChanged(isDevtoolsOpen)
                THEN <<Broadcast([isOpen |-> isDevtoolsOpen, checkerName |-> checkerName])>>
                ELSE <<>>
        aborted == sent # <<>> /\ sent[1].threw
    IN  /\ broadcasts' = sent
        /\ delivered' = IF sent = <<>> THEN delivered
                        ELSE IF isDevtoolsOpen THEN "open" ELSE "closed"
        /\ IF aborted
           THEN /\ isOpen' = isDevtoolsOpen
                /\ UNCHANGED <<timer, timers, nTimers, detectLoopStopped, stopReturned>>
           ELSE IF Rescheduled
           THEN /\ timer' = nTimers + 1
                /\ timers' = timers \cup {nTimers + 1}
                /\ nTimers' = nTimers + 1
                /\ isOpen' = isDevtoolsOpen
                /\ UNCHANGED <<detectLoopStopped, stopReturned>>
           ELSE /\ stop(isDevtoolsOpen)
                /\ UNCHANGED <<timer, nTimers>>
        /\ cycles' = SubSeq(cycles, 1, c - 1) \o SubSeq(cycles, c + 1, Len(cycles))
        /\ lastCycle' = [op |-> "poll", gen |-> cycles[c].gen, decision |-> isDevtoolsOpen,
                         checkerName |-> checkerName, openBy |-> openBy, stored |-> isOpen,
                         sent |-> Len(sent), log |-> log,
                         loopRunning |-> Rescheduled,
                         rescheduled |-> nTimers' # nTimers,
                         first |-> isDevtoolsOpen /\ ~runs[cycles[c].gen].openSeen,
                         follow |-> runs[cycles[c].gen].prev
                                        = (IF isDevtoolsOpen THEN "open" ELSE "closed")]
        /\ runs' = [runs EXCEPT ![cycles[c].gen] =
                        [prev |-> IF isDevtoolsOpen THEN "open" ELSE "closed",
                         openSeen |-> @.openSeen \/ isDevtoolsOpen]]

\* detectLoop() is called: its locals are set and it awaits the first checker's
\* isEnable().  cs is the list of cycles, g the run (launch) the call belongs to.
StartCycle(cs, g) ==
    /\ cycles' = Append(cs, [pc |-> "isEnable", i |-> 1, isDevtoolsOpen |-> FALSE,
                             checkerName |-> 0, gen |-> g, log |-> <<>>])
    /\ nPolls' = nPolls + 1

\* addListener(callback); the callback is one that returns or one that throws.
\* The bundle registers its listeners before it calls launch() (antiDevTools).
AddListener(kind) ==
    /\ Len(listeners) < MaxListeners
    /\ nPolls = 0
    /\ listeners' = Append(listeners, kind)
    /\ lastCycle' = NoCycle
    /\ UNCHANGED <<isOpen, detectLoopStopped, detectLoopDelay, timer, timers, nTimers,
                   cycles, nPolls, broadcasts, delivered, stopReturned, runs>>
    /\ UNCHANGED notDetector

\* setDetectDelay(delay)
SetDetectDelay(delay) ==
    /\ detectLoopDelay # delay
    /\ detectLoopDelay' = delay
    /\ lastCycle' = NoCycle
    /\ UNCHANGED <<listeners, isOpen, detectLoopStopped, timer, timers, nTimers,
                   cycles, nPolls, broadcasts, delivered, stopReturned, runs>>
    /\ UNCHANGED notDetector

\* The mutant of launch: the loop is started whether or not it is running.
launchUnguarded ==
    /\ detectLoopDelay' = IF detectLoopDelay <= 0 THEN DefaultDelay ELSE detectLoopDelay
    /\ detectLoopStopped' = FALSE
    /\ runs' = Append(runs, [prev |-> "none", openSeen |-> FALSE])
    /\ StartCycle(cycles, Len(runs) + 1)
    /\ stopReturned' = FALSE

\* launch(): what it does to the detector.
launch ==
    /\ detectLoopDelay' = IF detectLoopDelay <= 0 THEN DefaultDelay ELSE detectLoopDelay
    /\ IF detectLoopStopped
       THEN /\ detectLoopStopped' = FALSE
            /\ runs' = Append(runs, [prev |-> "none", openSeen |-> FALSE])
            /\ StartCycle(cycles, Len(runs) + 1)
       ELSE UNCHANGED <<detectLoopStopped, runs, cycles, nPolls>>
    /\ stopReturned' = FALSE

\* launch(), called from outside.
Launch ==
    /\ nPolls < MaxPolls
    /\ launch
    /\ lastCycle' = [op |-> "launch", delay |-> detectLoopDelay,
                     stopped |-> detectLoopStopped, polls |-> nPolls,
                     timers |-> timers]
    /\ UNCHANGED <<listeners, isOpen, timer, timers, nTimers, broadcasts, delivered>>
    /\ UNCHANGED notDetector

\* stop(), called from outside.
Stop ==
    /\ stop(isOpen)
    /\ lastCycle' = NoCycle
    /\ UNCHANGED <<listeners, detectLoopDelay, timer, nTimers, cycles, nPolls, broadcasts, delivered,
                   runs>>
    /\ UNCHANGED notDetector

\* The timeout t set by a poll cycle fires: () => this.detectLoop().
TimerFired(t) ==
    /\ t \in timers
    /\ nPolls < MaxPolls
    /\ timers' = timers \ {t}
    /\ StartCycle(cycles, Len(runs))
    /\ lastCycle' = NoCycle
    /\ UNCHANGED <<listeners, isOpen, detectLoopStopped, detectLoopDelay, timer, nTimers,
                   broadcasts, delivered, stopReturned, runs>>
    /\ UNCHANGED notDetector

(***************************************************************************)
(* antiDevTools (module 0x174): the listener it registers.                 *)
(***************************************************************************)
\* A Player is Active: its setup has created the backend and destroy has not run.
PlayerActive == playerInstance # 0 /\ ~isDestroyed

AntiNotRun ==
    [mode |-> "notrun", flagAtLoad |-> FALSE, alerts |-> 0, crashIntervals |-> 0,
     crashTabRan |-> FALSE, debuggerInterval |-> FALSE, isDevToolOpened |-> FALSE,
     tamperWhileActive |-> FALSE]

\* showWarningAndCrash(): showSecurityWarning("Security alert", message).
showWarningAndCrash(a) == [a EXCEPT !.alerts = @ + 1]

\* showWarningAndCrash(); setInterval(() => crashTab(), 100): the reaction to
\* developer tools found open.  tamperWhileActive records, for the properties,
\* that it happened while a Player was Active.
Detected(a) ==
    [showWarningAndCrash(a) EXCEPT !.crashIntervals = @ + 1,
                                   !.tamperWhileActive = @ \/ PlayerActive]

\* The listener: isOpen => { isDevToolOpened = isOpen; if (isDevToolOpened &&
\* isDebuggerOpen()) ... }, where isDebuggerOpen() answers debuggerOpen.
OnDevtoolsEvent(isOpenArg, debuggerOpen) ==
    /\ anti' = LET a == [anti EXCEPT !.isDevToolOpened = isOpenArg]
               IN  IF isOpenArg /\ debuggerOpen THEN Detected(a) ELSE a
    /\ UNCHANGED <<device, devtool, loads>>

\* What the listeners called by the broadcast of this step (if any) do outside
\* the detector.
ListenersCalled ==
    IF lastCycle'.op = "poll" /\ broadcasts' # <<>>
       /\ \E k \in 1..Len(listeners) : listeners[k] = "anti"
    THEN \E debuggerOpen \in BOOLEAN :
             OnDevtoolsEvent(broadcasts'[Len(broadcasts')].isOpen, debuggerOpen)
    ELSE UNCHANGED antiVars

(***************************************************************************)
(* DevtoolsDetector: the steps of a poll cycle.                            *)
(***************************************************************************)
\* The for loop of detectLoop goes on to the checker after cycles[c].i, or ends.
NextChecker(c, isDevtoolsOpen, checkerName, log) ==
    IF cycles[c].i < NumCheckers
    THEN /\ cycles' = [cycles EXCEPT ![c] = [@ EXCEPT !.pc = "isEnable", !.i = @ + 1,
                                                      !.isDevtoolsOpen = isDevtoolsOpen,
                                                      !.checkerName = checkerName,
                                                      !.log = log]]
         /\ lastCycle' = NoCycle
         /\ UNCHANGED <<isOpen, detectLoopStopped, timer, timers, nTimers, broadcasts, delivered,
                        stopReturned, runs>>
    ELSE FinishCycle(c, isDevtoolsOpen, checkerName, 0, log)

\* `await checker.isEnable()` of the cycle c settles with enabled.
IsEnableAnswered(c, enabled) ==
    /\ c \in 1..Len(cycles)
    /\ cycles[c].pc = "isEnable"
    /\ LET log == Append(cycles[c].log,
                         [checker |-> cycles[c].i, asked |-> "isEnable", answer |-> enabled])
       IN  IF enabled
           THEN /\ cycles' = [cycles EXCEPT ![c] = [@ EXCEPT !.pc = "isOpen",
                                                             !.checkerName = cycles[c].i,
                                                             !.log = log]]
                /\ lastCycle' = NoCycle
                /\ UNCHANGED <<isOpen, detectLoopStopped, timer, timers, nTimers, broadcasts, delivered,
                               stopReturned, runs>>
           ELSE NextChecker(c, cycles[c].isDevtoolsOpen, cycles[c].checkerName, log)
    /\ UNCHANGED <<listeners, detectLoopDelay, nPolls>>
    /\ UNCHANGED <<sessionVars, cipherVars>>
    /\ ListenersCalled

\* The mutant of IsOpenAnswered: no break, the loop goes on after a checker
\* that reports open.
IsOpenAnsweredNoBreak(c, open) ==
    /\ c \in 1..Len(cycles)
    /\ cycles[c].pc = "isOpen"
    /\ NextChecker(c, open, cycles[c].checkerName,
                   Append(cycles[c].log,
                          [checker |-> cycles[c].i, asked |-> "isOpen", answer |-> open]))
    /\ UNCHANGED <<listeners, detectLoopDelay, nPolls>>
    /\ UNCHANGED <<sessionVars, cipherVars>>
    /\ ListenersCalled

\* `await checker.isOpen()` of the cycle c settles with open.
IsOpenAnswered(c, open) ==
    /\ c \in 1..Len(cycles)
    /\ cycles[c].pc = "isOpen"
    /\ LET log == Append(cycles[c].log,
                         [checker |-> cycles[c].i, asked |-> "isOpen", answer |-> open])
       IN  IF open
           THEN FinishCycle(c, TRUE, cycles[c].checkerName, cycles[c].i, log)
           ELSE NextChecker(c, FALSE, cycles[c].checkerName, log)
    /\ UNCHANGED <<listeners, detectLoopDelay, nPolls>>
    /\ UNCHANGED <<sessionVars, cipherVars>>
    /\ ListenersCalled

\* new DevtoolsDetector(config)
DetectorConstructed ==
    /\ listeners = <<>>
    /\ isOpen = FALSE
    /\ detectLoopStopped = TRUE
    /\ detectLoopDelay = DefaultDelay
    /\ timer = 0
    /\ timers = {}
    /\ nTimers = 0
    /\ cycles = <<>>
    /\ nPolls = 0
    /\ broadcasts = <<>>
    /\ delivered = "none"
    /\ stopReturned = FALSE
    /\ lastCycle = NoCycle
    /\ runs = <<>>

(***************************************************************************)
(* Mp4Player (module 0x22df).                                              *)
(***************************************************************************)
\* The mutant of SelectBackend: the two first branches swapped.
SelectBackendBoxFirst ==
    IF env.MediaSource THEN "Mp4PlayerBox"
    ELSE IF env.serviceWorker /\ ~env.isEdgeAndroid /\ ~env.isHeyTapBrowser
            /\ env.isChromeVersionOk THEN "Mp4PlayerSW"
    ELSE "Mp4PlayerNative"

\* The if / else if / else of Mp4Player.setup; `new` never yields a falsy value,
\* so the `if (!playerImplementation)` that follows never replaces the choice.
SelectBackend ==
    LET chosen ==
            IF env.serviceWorker /\ ~env.isEdgeAndroid /\ ~env.isHeyTapBrowser
               /\ env.isChromeVersionOk THEN "Mp4PlayerSW"
            ELSE IF env.MediaSource THEN "Mp4PlayerBox"
            ELSE "Mp4PlayerNative"
    IN  IF chosen = "null" THEN "Mp4PlayerVideo" ELSE chosen

\* Mp4Player.setup on the Mp4Player m of the list ms: a new backend is created,
\* stored in playerImplementation (whatever was there) and set up.
Mp4SetupBackends == Append(backends, [kind |-> SelectBackend, setups |-> 1, destroyed |-> 0])

Mp4SetupMp4s(ms, m) == [ms EXCEPT ![m].playerImplementation = Len(backends) + 1]

\* Mp4Player.destroy: playerImplementation?.destroy?.(reason, shouldFallback).
Mp4DestroyBackends(m) ==
    IF mp4s[m].playerImplementation # 0
    THEN [backends EXCEPT ![mp4s[m].playerImplementation].destroyed = @ + 1]
    ELSE backends

(***************************************************************************)
(* Player (module 0x2c).                                                   *)
(***************************************************************************)
isSupported == env.canPlayType /\ env.jwplayer

\* source && ["mp4"].includes(source?.type)
SupportedSourceWebm(s) == s \in {"mp4", "webm"}

SupportedSource(s) == s = "mp4"

\* options?.sources?.filter(...) || []
FilterSources(srcs) ==
    IF ~srcs.has THEN <<>> ELSE SelectSeq(srcs.list, SupportedSource)

\* The mutant of destroy: the isDestroyed guard is gone.
destroyUnguarded(reason, opts) ==
    /\ isDestroyed' = TRUE
    /\ backends' = IF playerInstance # 0 THEN Mp4DestroyBackends(playerInstance) ELSE backends
    /\ playerInstance' = 0
    /\ swm' = [swm EXCEPT !.destroyed = @ + 1]
    /\ options' = EmptyOptions
    /\ trackers' = IF tracker # 0 THEN [trackers EXCEPT ![tracker].destroyed = @ + 1]
                   ELSE trackers
    /\ tracker' = 0
    /\ notifications' =
           Append(notifications, IF reason = Undefined THEN ReasonDefault ELSE reason)
    /\ UNCHANGED <<mp4s, player>>

\* mediaManager.destroy(reason), run when the variable options holds opts.
destroy(reason, opts) ==
    IF ~isDestroyed
    THEN /\ isDestroyed' = TRUE
         /\ backends' = IF playerInstance # 0 THEN Mp4DestroyBackends(playerInstance)
                        ELSE backends
         /\ playerInstance' = 0
         /\ swm' = [swm EXCEPT !.destroyed = @ + 1]
         /\ options' = EmptyOptions
         /\ trackers' = IF tracker # 0 THEN [trackers EXCEPT ![tracker].destroyed = @ + 1]
                        ELSE trackers
         /\ tracker' = 0
         /\ notifications' =
                Append(notifications, IF reason = Undefined THEN ReasonDefault ELSE reason)
         /\ UNCHANGED <<mp4s, player>>
    ELSE /\ options' = opts
         /\ UNCHANGED <<tracker, playerInstance, isDestroyed, player, trackers, mp4s,
                        backends, swm, notifications>>

\* setup, from `options = { ...config }` to `await serviceWorkerManager.register()`,
\* for the call c of the list cs.
setupFromOptions(cs, c) ==
    LET filtered == FilterSources(cs[c].sources) IN
    IF Len(filtered) = 0
    THEN \* options = { ...config } with sources = [] is assigned before destroy runs
         /\ destroy(ReasonNoSources, [keys |-> {"sources"}, sources |-> <<>>])
         /\ calls' = [cs EXCEPT ![c].pc = "done"]
    ELSE /\ options' = [keys |-> {"sources"}, sources |-> filtered]
         /\ trackers' = Append(trackers, [started |-> ~env.isLocalhost, destroyed |-> 0])
         /\ tracker' = Len(trackers) + 1
         /\ swm' = [swm EXCEPT !.registered = @ + 1]
         /\ calls' = [cs EXCEPT ![c].pc = "register"]
         /\ UNCHANGED <<playerInstance, isDestroyed, player, mp4s, backends, notifications>>

\* setup, from its first line to its first await (or to its return).
SetupCall(sources) ==
    /\ Len(calls) < MaxSetupCalls
    /\ LET c == Len(calls) + 1
           \* afterDestroy and polyfill record, for the properties, whether
           \* destroy had run when the call was made and how loadScript settled
           cs == Append(calls, [pc |-> "start", sources |-> sources,
                                afterDestroy |-> isDestroyed, polyfill |-> "pending"])
       IN  IF ~isSupported
           THEN /\ destroy(ReasonUnsupported, options)
                /\ calls' = [cs EXCEPT ![c].pc = "done"]
           ELSE IF ~env.isIframed /\ ~env.isLocalhost
           THEN /\ destroy(ReasonNotFramed, options)
                /\ calls' = [cs EXCEPT ![c].pc = "done"]
           ELSE IF ~env.isSecureContext
           THEN /\ calls' = [cs EXCEPT ![c].pc = "polyfill"]
                /\ UNCHANGED playerVars
           ELSE setupFromOptions(cs, c)
    /\ UNCHANGED <<env, nDestroyCalls>>
    /\ UNCHANGED notSession

\* await loadScript(polyfills) settles with ok.
SetupPolyfillLoaded(c, ok) ==
    /\ c \in 1..Len(calls)
    /\ calls[c].pc = "polyfill"
    /\ LET cs == [calls EXCEPT ![c].polyfill = IF ok THEN "loaded" ELSE "failed"] IN
       IF ~ok
       THEN /\ destroy(ReasonInsecure, options)
            /\ calls' = [cs EXCEPT ![c].pc = "done"]
       ELSE setupFromOptions(cs, c)
    /\ UNCHANGED <<env, nDestroyCalls>>
    /\ UNCHANGED notSession

\* await serviceWorkerManager.register() settles; setup runs to its end.
SetupRegistered(c) ==
    /\ c \in 1..Len(calls)
    /\ calls[c].pc = "register"
    /\ options' = [options EXCEPT !.keys = @ \cup {"videoId"}]
    /\ mp4s' = Mp4SetupMp4s(Append(mp4s, [playerImplementation |-> 0]), Len(mp4s) + 1)
    /\ backends' = Mp4SetupBackends
    /\ playerInstance' = Len(mp4s) + 1
    /\ player' = Len(mp4s) + 1
    /\ calls' = [calls EXCEPT ![c].pc = "done"]
    /\ UNCHANGED <<env, tracker, isDestroyed, trackers, swm, notifications, nDestroyCalls>>
    /\ UNCHANGED notSession

\* destroy(reason) called from outside the Player.
DestroyCall(reason) ==
    /\ nDestroyCalls < MaxDestroyCalls
    /\ nDestroyCalls' = nDestroyCalls + 1
    /\ destroy(reason, options)
    /\ UNCHANGED <<env, calls>>
    /\ UNCHANGED notSession

\* new Player(): the state its constructor leaves.
PlayerConstructed ==
    /\ tracker = 0
    /\ playerInstance = 0
    /\ isDestroyed = FALSE
    /\ options = EmptyOptions
    /\ player = 0
    /\ trackers = <<>>
    /\ swm = [registered |-> 0, destroyed |-> 0]
    /\ notifications = <<>>
    /\ calls = <<>>
    /\ nDestroyCalls = 0

(***************************************************************************)
(* antiDevTools (module 0x174), run once per page load, its intervals, and *)
(* the reload of the page: sessionStorage outlives the load, every object  *)
(* of the page does not.                                                   *)
(***************************************************************************)
\* isTouchDevice and isDesktop as the page finds them when it loads.
Devices == [isTouchDevice : BOOLEAN, isDesktop : BOOLEAN]

\* antiDevTools()
AntiDevTools ==
    /\ anti.mode = "notrun"
    /\ IF ~(~device.isTouchDevice \/ device.isDesktop)
       THEN /\ anti' = [anti EXCEPT !.mode = "skipped", !.flagAtLoad = (devtool = "open")]
            /\ UNCHANGED detectorVars
       ELSE IF devtool = "open"
       THEN /\ anti' = [showWarningAndCrash(anti) EXCEPT !.mode = "denied",
                                                         !.flagAtLoad = TRUE,
                                                         !.crashIntervals = @ + 1]
            /\ UNCHANGED detectorVars
       ELSE IF device.isTouchDevice
       THEN /\ anti' = [anti EXCEPT !.mode = "touch", !.debuggerInterval = TRUE]
            /\ UNCHANGED detectorVars
       ELSE /\ anti' = [anti EXCEPT !.mode = "listening"]
            /\ listeners' = Append(listeners, "anti")
            /\ launch
            /\ lastCycle' = NoCycle
            /\ UNCHANGED <<isOpen, timer, timers, nTimers, broadcasts, delivered>>
    /\ UNCHANGED <<device, devtool, loads>>
    /\ UNCHANGED <<sessionVars, cipherVars>>

\* The interval of the touch branch fires; isDebuggerOpen() answers debuggerOpen.
DebuggerIntervalTick(debuggerOpen) ==
    /\ anti.debuggerInterval
    /\ anti' = IF debuggerOpen THEN [Detected(anti) EXCEPT !.debuggerInterval = FALSE]
               ELSE anti
    /\ UNCHANGED <<device, devtool, loads>>
    /\ UNCHANGED <<sessionVars, cipherVars, detectorVars>>

\* An interval that calls crashTab() fires: jwplayer()?.remove?.() inside try,
\* sessionStorage.setItem("devtool", "open") in finally.
CrashTabTick ==
    /\ anti.crashIntervals > 0
    /\ devtool' = "open"
    /\ anti' = [anti EXCEPT !.crashTabRan = TRUE]
    /\ UNCHANGED <<device, loads>>
    /\ UNCHANGED <<sessionVars, cipherVars, detectorVars>>

\* The page is loaded again in the same tab, on a device found as d.
Reload(d) ==
    /\ loads < MaxLoads
    /\ loads' = loads + 1
    /\ device' = d
    /\ anti' = AntiNotRun
    /\ UNCHANGED devtool
    /\ listeners' = <<>> /\ isOpen' = FALSE /\ detectLoopStopped' = TRUE
    /\ detectLoopDelay' = DefaultDelay /\ timer' = 0 /\ timers' = {} /\ nTimers' = 0
    /\ cycles' = <<>> /\ nPolls' = 0 /\ broadcasts' = <<>> /\ stopReturned' = FALSE
    /\ delivered' = "none"
    /\ lastCycle' = NoCycle /\ runs' = <<>>
    /\ tracker' = 0 /\ playerInstance' = 0 /\ isDestroyed' = FALSE
    /\ options' = EmptyOptions /\ player' = 0 /\ trackers' = <<>> /\ mp4s' = <<>>
    /\ backends' = <<>> /\ swm' = [registered |-> 0, destroyed |-> 0]
    /\ notifications' = <<>> /\ calls' = <<>> /\ nDestroyCalls' = 0
    /\ UNCHANGED env
    /\ UNCHANGED cipherVars

\* A page on a desktop in which antiDevTools has not run.
AntiDevToolsNotRun ==
    /\ device = [isTouchDevice |-> FALSE, isDesktop |-> TRUE]
    /\ devtool = "unset"
    /\ anti = AntiNotRun
    /\ loads = 1

\* Module 0x22df sets the deny-list flags and the version gate to constants.
InitPlayer ==
    /\ env \in [EnvFlags -> BOOLEAN]
    /\ ~env.isEdgeAndroid /\ ~env.isHeyTapBrowser /\ env.isChromeVersionOk
    /\ PlayerConstructed
    /\ mp4s = <<>>
    /\ backends = <<>>
    /\ CipherConstructed
    /\ DetectorConstructed
    /\ AntiDevToolsNotRun

NextPlayer ==
    \/ \E s \in ConfigSources : SetupCall(s)
    \/ \E c \in 1..MaxSetupCalls, ok \in BOOLEAN : SetupPolyfillLoaded(c, ok)
    \/ \E c \in 1..MaxSetupCalls : SetupRegistered(c)
    \/ \E r \in Reasons : DestroyCall(r)

SpecPlayer == InitPlayer /\ [][NextPlayer]_vars

(***************************************************************************)
(* Mp4Player on its own: one Mp4Player object, set up and destroyed by its *)
(* caller.                                                                 *)
(***************************************************************************)
Mp4PlayerSetup(m) ==
    /\ m \in 1..Len(mp4s)
    /\ Len(backends) < MaxBackends
    /\ backends' = Mp4SetupBackends
    /\ mp4s' = Mp4SetupMp4s(mp4s, m)
    /\ UNCHANGED <<env, tracker, playerInstance, isDestroyed, options, player, trackers,
                   swm, notifications, calls, nDestroyCalls>>
    /\ UNCHANGED notSession

Mp4PlayerDestroy(m) ==
    /\ m \in 1..Len(mp4s)
    /\ mp4s[m].playerImplementation # 0
    /\ backends[mp4s[m].playerImplementation].destroyed < MaxDestroyCalls
    /\ backends' = Mp4DestroyBackends(m)
    /\ UNCHANGED <<env, tracker, playerInstance, isDestroyed, options, player, trackers,
                   mp4s, swm, notifications, calls, nDestroyCalls>>
    /\ UNCHANGED notSession

\* The page's Player is not used here; its flags are held at one value.
InitMp4 ==
    /\ env \in [EnvFlags -> BOOLEAN]
    /\ env.jwplayer /\ env.isSecureContext /\ env.isIframed /\ ~env.isLocalhost
    /\ PlayerConstructed
    /\ mp4s = <<[playerImplementation |-> 0]>>
    /\ backends = <<>>
    /\ CipherConstructed
    /\ DetectorConstructed
    /\ AntiDevToolsNotRun

NextMp4 ==
    \/ Mp4PlayerSetup(1)
    \/ Mp4PlayerDestroy(1)

SpecMp4 == InitMp4 /\ [][NextMp4]_vars

(***************************************************************************)
(* The cipher on its own, in a page with an idle Player.                   *)
(***************************************************************************)
InitCipher ==
    /\ env = [f \in EnvFlags |-> TRUE]
    /\ PlayerConstructed
    /\ mp4s = <<>>
    /\ backends = <<>>
    /\ CipherConstructed
    /\ DetectorConstructed
    /\ AntiDevToolsNotRun

NextCipher ==
    \/ MainEntry
    \/ \E k \in Secrets : ExpandKeyCall(k)
    \/ \E i \in 1..MaxPendingImports, ok \in BOOLEAN : ExpandKeySettled(i, ok)
    \/ \E d \in Plaintexts : EncryptCall(d)
    \/ \E d \in DecryptArguments : DecryptCall(d)

SpecCipher == InitCipher /\ [][NextCipher]_vars

(***************************************************************************)
(* One cipher, expanded with one secret (by any number of expandKey calls, *)
(* failing ones too), with overlapping encrypt and decrypt calls.          *)
(***************************************************************************)
NextOverlap ==
    \/ MainEntry
    \/ \E k \in Secrets \ {<<>>} : secretsUsed \subseteq {k} /\ ExpandKeyCall(k)
    \/ \E i \in 1..MaxPendingImports, ok \in BOOLEAN : ExpandKeySettled(i, ok)
    \/ \E d \in OverlapPlaintexts : EncryptStart(d)
    \/ \E d \in OverlapCiphertexts : DecryptStart(d)
    \/ \E i \in 1..MaxInFlight : CryptSettled(i)

SpecOverlap == InitCipher /\ [][NextOverlap]_vars

(***************************************************************************)
(* The detector on its own, in a page with an idle Player and cipher.      *)
(***************************************************************************)
InitDetector ==
    /\ env = [f \in EnvFlags |-> TRUE]
    /\ PlayerConstructed
    /\ mp4s = <<>>
    /\ backends = <<>>
    /\ CipherConstructed
    /\ DetectorConstructed
    /\ AntiDevToolsNotRun

NextDetector ==
    \/ \E kind \in {"returns", "throws"} : AddListener(kind)
    \/ \E d \in Delays : SetDetectDelay(d)
    \/ Launch
    \/ Stop
    \/ \E t \in 1..MaxPolls : TimerFired(t)
    \/ \E c \in 1..MaxPolls, b \in BOOLEAN : IsEnableAnswered(c, b)
    \/ \E c \in 1..MaxPolls, b \in BOOLEAN : IsOpenAnswered(c, b)

SpecDetector == InitDetector /\ [][NextDetector]_vars

(***************************************************************************)
(* The page with antiDevTools: the detector is launched by antiDevTools    *)
(* only, the embedding page sets up a Player, and the page may be loaded   *)
(* again.                                                                  *)
(***************************************************************************)
InitAnti ==
    /\ env = [f \in EnvFlags |-> TRUE]
    /\ PlayerConstructed
    /\ mp4s = <<>>
    /\ backends = <<>>
    /\ CipherConstructed
    /\ DetectorConstructed
    /\ device \in Devices
    /\ devtool = "unset"
    /\ anti = AntiNotRun
    /\ loads = 1

NextAnti ==
    \/ AntiDevTools
    \/ \E b \in BOOLEAN : DebuggerIntervalTick(b)
    \/ CrashTabTick
    \/ \E d \in Devices : Reload(d)
    \/ \E t \in 1..MaxPolls : TimerFired(t)
    \/ \E c \in 1..MaxPolls, b \in BOOLEAN : IsEnableAnswered(c, b)
    \/ \E c \in 1..MaxPolls, b \in BOOLEAN : IsOpenAnswered(c, b)
    \/ anti.mode # "notrun" /\ SetupCall([has |-> TRUE, list |-> <<"mp4">>])
    \/ \E c \in 1..MaxSetupCalls : SetupRegistered(c)

SpecAnti == InitAnti /\ [][NextAnti]_vars

(***************************************************************************)
(* Properties of the Player (checked under SpecPlayer).                    *)
(***************************************************************************)
AllTornDown ==
    /\ playerInstance = 0
    /\ tracker = 0
    /\ options = EmptyOptions
    /\ \A b \in 1..Len(backends) : backends[b].destroyed > 0
    /\ \A t \in 1..Len(trackers) : trackers[t].destroyed > 0

\* The reason of the first gate that the call c fails, in the order the
\* controller's contract lists the gates ("none" when it passes them all, or
\* when the polyfill load it waits for has not settled).
FirstFailingGate(c) ==
    IF ~(env.canPlayType /\ env.jwplayer) THEN ReasonUnsupported
    ELSE IF ~(env.isIframed \/ env.isLocalhost) THEN ReasonNotFramed
    ELSE IF ~env.isSecureContext /\ calls[c].polyfill = "failed" THEN ReasonInsecure
    ELSE IF ~env.isSecureContext /\ calls[c].polyfill = "pending" THEN "none"
    ELSE IF \A i \in 1..Len(calls[c].sources.list) : calls[c].sources.list[i] # "mp4"
         THEN ReasonNoSources
    ELSE "none"

\* C1: destroy is idempotent. Whatever setup and destroy calls are made, the
\* notification is shown at most once, the service worker manager, every
\* tracker and every backend are destroyed at most once, and a destroy call
\* made when the Player is already destroyed changes nothing of the Player.
C1_DestroyIdempotent ==
    /\ [](/\ Len(notifications) <= 1
          /\ swm.destroyed <= 1
          /\ \A t \in 1..Len(trackers) : trackers[t].destroyed <= 1
          /\ \A b \in 1..Len(backends) : backends[b].destroyed <= 1)
    /\ [][(nDestroyCalls' # nDestroyCalls /\ isDestroyed) => UNCHANGED playerVars]_vars

\* C1 witness: destroy was called twice on a Player whose setup had created a
\* backend; the backend was torn down once and one notification was shown.
C1_Witness ==
    /\ nDestroyCalls = 2
    /\ Len(notifications) = 1
    /\ \E b \in 1..Len(backends) : backends[b].destroyed = 1
    /\ \E t \in 1..Len(trackers) : trackers[t].destroyed = 1

\* C2: a setup call that is the only call made on a fresh Player and that fails
\* a gate leaves the Player destroyed, with exactly one notification whose
\* reason is that of the first failing gate, no tracker created or started, no
\* service registered and no backend created.
C2_GateFailureDestroys ==
    (/\ Len(calls) = 1
     /\ nDestroyCalls = 0
     /\ calls[1].pc = "done"
     /\ FirstFailingGate(1) # "none")
    => /\ isDestroyed
       /\ notifications = <<FirstFailingGate(1)>>
       /\ trackers = <<>>
       /\ swm.registered = 0
       /\ mp4s = <<>>
       /\ backends = <<>>

\* C2 witness: setup with sources [{type: "webm"}] in an environment that passes
\* the first three gates (the third by a polyfill load) ended with the reason
\* "No playable sources found".
C2_Witness ==
    /\ Len(calls) = 1
    /\ nDestroyCalls = 0
    /\ calls[1].pc = "done"
    /\ calls[1].sources.list = <<"webm">>
    /\ calls[1].polyfill = "loaded"
    /\ notifications = <<ReasonNoSources>>

\* C3: the session is permanently destroyed. Once destroy has run, setup calls
\* made afterwards (all gates passing) bring no backend, tracker or session
\* options to life again.
C3_PermanentlyDestroyed ==
    (/\ isDestroyed
     /\ \A c \in 1..Len(calls) : calls[c].afterDestroy /\ FirstFailingGate(c) = "none")
    => AllTornDown

\* C16: single live backend. In every reachable state at most one of the
\* backends created so far is alive (created and not destroyed).
C16_SingleLiveBackend ==
    Cardinality({b \in 1..Len(backends) : backends[b].destroyed = 0}) <= 1

\* C17: destroy during setup. When the one setup call made on a Player was made
\* before destroy ran and has finished, and destroy has run (before, while or
\* after the call was suspended), then the backend, the tracker and the session
\* options are all not alive.
C17_DestroyDuringSetup ==
    (/\ Len(calls) = 1
     /\ ~calls[1].afterDestroy
     /\ calls[1].pc = "done"
     /\ isDestroyed)
    => AllTornDown

(***************************************************************************)
(* Properties of Mp4Player (checked under SpecMp4).                        *)
(***************************************************************************)
InterceptionUsable ==
    env.serviceWorker /\ ~env.isEdgeAndroid /\ ~env.isHeyTapBrowser /\ env.isChromeVersionOk

\* C4: first match in fixed order. Every backend Mp4Player.setup creates is the
\* stream-interception backend when interception is usable, whatever the other
\* capabilities; otherwise it is the source-buffering backend when MediaSource
\* is present.
C4_SelectionOrder ==
    \A b \in 1..Len(backends) :
        /\ InterceptionUsable => backends[b].kind = "Mp4PlayerSW"
        /\ (~InterceptionUsable /\ env.MediaSource) => backends[b].kind = "Mp4PlayerBox"

\* C4 witness: setup ran where interception is usable and MediaSource and
\* native codec support are present as well.
C4_Witness ==
    /\ InterceptionUsable /\ env.MediaSource /\ env.canPlayType
    /\ mp4s[1].playerImplementation # 0
    /\ backends[mp4s[1].playerImplementation].kind = "Mp4PlayerSW"

\* C5: the native backend is chosen only when native codec support is present,
\* and with every capability false the raw-video fallback is chosen.
C5_NativeAndFallback ==
    \A b \in 1..Len(backends) :
        /\ backends[b].kind = "Mp4PlayerNative" => env.canPlayType
        /\ (~env.serviceWorker /\ ~env.MediaSource /\ ~env.canPlayType)
               => backends[b].kind = "Mp4PlayerVideo"

(***************************************************************************)
(* Properties of AesCtrCipher (checked under SpecCipher).                  *)
(***************************************************************************)
\* The bytes a value stands for: a text's UTF-8 encoding, a byte array's bytes.
PlainBytes(d) == IF d.t = "str" THEN TextEncode(d.v) ELSE d.v

\* C6: fail-open pass-through. An encrypt or decrypt call made when no
\* expandKey call has returned true so far returns its argument unchanged and
\* does not throw; expandKey("") returns false; and as long as no expandKey call
\* has returned true the cipher holds no key.
C6_FailOpen ==
    /\ (last.op \in {"encrypt", "decrypt"} /\ ~last.expanded)
           => (~last.threw /\ last.out = last.arg)
    /\ (last.op = "expandKey" /\ last.arg = <<>>) => last.returned = "false"
    /\ ~everExpanded => cryptoKey = <<>>

\* C6 witness: an expandKey call had set the counter and failed at the key
\* import, and encrypt("x") then returned "x".
C6_Witness ==
    /\ ~everExpanded
    /\ aesCounter # <<>>
    /\ imports = <<>>
    /\ last.op = "encrypt"
    /\ last.arg = Str(<<120>>)
    /\ last.out = Str(<<120>>)

\* C7: round trip. On a key-expanded cipher, decrypt of what encrypt(p)
\* returned gives back p byte for byte, and encrypt preserves the byte length.
C7_RoundTrip ==
    (/\ last.op = "decrypt"
     /\ last.of.op = "encrypt"
     /\ last.of.key # <<>>
     /\ last.of.arg.t # "null"
     /\ last.arg = last.of.out)
    => /\ ~last.threw
       /\ PlainBytes(last.out) = PlainBytes(last.of.arg)
       /\ Len(last.of.out.v) = Len(PlainBytes(last.of.arg))

\* C7 as amended: on a key-expanded cipher, decrypt of the bytes of what
\* encrypt(p) returned (one byte per char code, passed as a byte array) gives
\* back the bytes of p, and encrypt preserves the byte length.
C7_RoundTripBytes ==
    (/\ last.op = "decrypt"
     /\ last.of.op = "encrypt"
     /\ last.of.key # <<>>
     /\ last.of.arg.t # "null"
     /\ last.arg = Bin(last.of.out.v))
    => /\ ~last.threw
       /\ last.out = Bin(PlainBytes(last.of.arg))
       /\ Len(last.of.out.v) = Len(PlainBytes(last.of.arg))

\* C7 witness: a text of 17 bytes was encrypted under a key, the 17 bytes
\* returned differ from it, and decrypting them gave the text's bytes back.
C7_Witness ==
    /\ last.op = "decrypt"
    /\ last.of.op = "encrypt"
    /\ last.of.key # <<>>
    /\ last.of.arg = Str(Text16 \o <<103>>)
    /\ last.of.out.v # Text16 \o <<103>>
    /\ last.arg = Bin(last.of.out.v)
    /\ last.out = Bin(Text16 \o <<103>>)

\* C8: tolerant decode. Every decrypt call on a key-expanded cipher whose
\* argument is a text that is not valid base64 returns "" and does not throw.
C8_TolerantDecode ==
    (/\ last.op = "decrypt"
     /\ last.key # <<>>
     /\ last.arg.t = "str"
     /\ ~Base64Valid(last.arg.v))
    => (~last.threw /\ last.out = Str(<<>>))

\* C8 witness: decrypt("n-t!") on a key-expanded cipher returned "".
C8_Witness ==
    /\ last.op = "decrypt"
    /\ last.key # <<>>
    /\ last.arg = Str(<<110, 45, 116, 33>>)
    /\ ~last.threw
    /\ last.out = Str(<<>>)

\* C11: key derivation. The key material every expandKey call with a non-empty
\* secret hands to importKey is exactly 16 bytes, the first 16 bytes of the
\* UTF-8 encoding of the hex digest text of the secret, and it equals the
\* counter block that call has just set.
C11_KeyDerivation ==
    /\ \A i \in 1..Len(imports) :
           /\ Len(imports[i].keyData) = 16
           /\ imports[i].keyData = SubSeq(TextEncode(md5(imports[i].keyString)), 1, 16)
    /\ (last.op = "expandKey" /\ last.returned = "pending")
           => imports[Len(imports)].keyData = aesCounter

\* C20: key / counter consistency. The cipher never loses its key; every
\* encrypt or decrypt call made with a key uses the counter derived from the
\* secret the key was derived from (the first 16 bytes of the key data); and an
\* expandKey call that is in flight or has failed leaves the key and the
\* counter of a key-expanded cipher as they were.
C20_KeyCounterConsistency ==
    /\ [][cryptoKey # <<>> => cryptoKey' # <<>>]_vars
    /\ []((last.op \in {"encrypt", "decrypt"} /\ last.key # <<>>)
             => last.counter = SubSeq(last.key, 1, 16))
    /\ [][(/\ cryptoKey # <<>>
           /\ last'.op = "expandKey"
           /\ last'.returned \in {"pending", "false"})
          => (cryptoKey' = cryptoKey /\ aesCounter' = aesCounter)]_vars

(***************************************************************************)
(* Properties of overlapping cipher calls (checked under SpecOverlap).     *)
(***************************************************************************)
\* What a call returns when it is the only call made on a cipher expanded
\* with the secret S.
RunAlone(op, arg, S) ==
    LET key == TextEncode(md5(S))
        counter == SubSeq(key, 1, 16)
        bytes == IF op = "encrypt" THEN PlainBytes(arg)
                 ELSE IF arg.t = "bin" THEN arg.v
                 ELSE IF Base64Valid(arg.v) THEN Base64Bytes(Base64Stripped(arg.v))
                 ELSE <<>>
        buffer == CtrTransform(key, counter, bytes)
    IN  IF op = "encrypt" THEN Str(buffer)
        ELSE IF arg.t = "str" THEN Str(TextDecode(buffer))
        ELSE Bin(buffer)

\* C19: no interference. Every encrypt or decrypt call made on the cipher
\* expanded with the secret S, whatever calls were in flight when it was made
\* and when it returned, returns what it returns when run alone.
C19_NoInterference ==
    (last.op \in {"encrypt", "decrypt"} /\ last.key # <<>>)
    => \A S \in secretsUsed : ~last.threw /\ last.out = RunAlone(last.op, last.arg, S)

\* C19 witness: a call was made while another was in flight, returned while
\* another was in flight, and returned what it returns alone.
C19_Witness ==
    /\ last.op \in {"encrypt", "decrypt"}
    /\ last.key # <<>>
    /\ last.startedWith = 1
    /\ last.settledWith = 1
    /\ \E S \in secretsUsed : last.out = RunAlone(last.op, last.arg, S)

(***************************************************************************)
(* Properties of DevtoolsDetector (checked under SpecDetector).            *)
(***************************************************************************)
\* C9: cancellation. Once stop() has returned, and until launch() is called
\* again, no step of the monitor calls a listener.
C9_NoBroadcastAfterStop ==
    [][(stopReturned /\ lastCycle'.op = "poll") =>
           \/ broadcasts' = <<>>
           \/ broadcasts'[1].invoked = <<>>]_vars

\* C10: edge-triggered notification. A poll cycle broadcasts once if its
\* decision differs from the stored isOpen and not at all otherwise; the first
\* poll of a launch() that finds a checker open sends exactly one broadcast,
\* with isOpen = true and the name of that checker; and a poll whose decision
\* is that of the poll before it sends none.
C10_EdgeTriggered ==
    lastCycle.op = "poll" =>
        /\ lastCycle.sent = (IF lastCycle.decision # lastCycle.stored THEN 1 ELSE 0)
        /\ lastCycle.first =>
               /\ lastCycle.sent = 1
               /\ broadcasts[Len(broadcasts)].isOpen = TRUE
               /\ broadcasts[Len(broadcasts)].checkerName = lastCycle.openBy
        /\ lastCycle.follow => lastCycle.sent = 0

\* The places of a consultation log where a checker said it is enabled, and
\* where a checker reported open.
EnabledAt(log) == {k \in 1..Len(log) : log[k].asked = "isEnable" /\ log[k].answer}

OpenAt(log) == {k \in 1..Len(log) : log[k].asked = "isOpen" /\ log[k].answer}

LastOf(S) == CHOOSE k \in S : \A j \in S : j <= k

\* C14: poll decision. In every finished poll cycle the checkers were asked
\* isEnable() in registration order, one after the other from the first;
\* isOpen() was asked exactly of the checkers whose isEnable() held, right
\* after it; nothing was asked after a checker reported open; a cycle in which
\* no checker reported open went through every checker; the decision is open
\* iff some enabled checker reported open; and the checker name of the cycle
\* (and of its broadcast, if any) is that of the last enabled checker asked.
C14_PollDecision ==
    lastCycle.op = "poll" =>
        LET log == lastCycle.log
            n == Len(log)
        IN  /\ n > 0
            /\ \A k \in 1..n :
                   /\ log[k].asked = "isEnable" =>
                          \/ k = 1 /\ log[k].checker = 1
                          \/ /\ k > 1
                             /\ log[k].checker = log[k - 1].checker + 1
                             /\ ~log[k - 1].answer
                   /\ log[k].asked = "isOpen" =>
                          /\ k > 1
                          /\ log[k - 1] = [checker |-> log[k].checker, asked |-> "isEnable",
                                           answer |-> TRUE]
            /\ \A k \in EnabledAt(log) : k < n /\ log[k + 1].asked = "isOpen"
            /\ \A k \in OpenAt(log) : k = n
            /\ OpenAt(log) = {} => log[n].checker = NumCheckers
            /\ lastCycle.decision = (OpenAt(log) # {})
            /\ lastCycle.checkerName =
                   (IF EnabledAt(log) = {} THEN 0 ELSE log[LastOf(EnabledAt(log))].checker)
            /\ lastCycle.sent = 1 =>
                   broadcasts[Len(broadcasts)].checkerName = lastCycle.checkerName

\* C14 witness: a cycle went past the first checker, enabled and closed, and
\* ended at the second, enabled and open, without asking any checker after it.
C14_Witness ==
    /\ lastCycle.op = "poll"
    /\ Len(lastCycle.log) = 4
    /\ lastCycle.log[2] = [checker |-> 1, asked |-> "isOpen", answer |-> FALSE]
    /\ lastCycle.log[4] = [checker |-> 2, asked |-> "isOpen", answer |-> TRUE]
    /\ lastCycle.decision
    /\ lastCycle.sent = 1
    /\ broadcasts[Len(broadcasts)].checkerName = 2

\* C15: listener isolation. A poll cycle that broadcasts calls every registered
\* listener once, in registration order, with the cycle's decision, whichever
\* of them throw; and a cycle that ends while the loop is running (delay
\* positive, not stopped) sets the timeout of the next poll.
C15_ListenerIsolation ==
    lastCycle.op = "poll" =>
        /\ lastCycle.sent = 1 =>
               /\ broadcasts[Len(broadcasts)].invoked = [k \in 1..Len(listeners) |-> k]
               /\ broadcasts[Len(broadcasts)].isOpen = lastCycle.decision
        /\ lastCycle.loopRunning => lastCycle.rescheduled

\* C15 witness: the first of two listeners throws; the broadcast called both
\* and the cycle set the next timeout.
C15_Witness ==
    /\ listeners = <<"throws", "returns">>
    /\ lastCycle.op = "poll"
    /\ lastCycle.sent = 1
    /\ broadcasts[Len(broadcasts)].invoked = <<1, 2>>
    /\ lastCycle.rescheduled
    /\ timer \in timers

\* C18: launch postcondition. Every launch() call leaves the delay positive (a
\* non-positive delay becomes 500, a positive one is kept) and the loop marked
\* running; and a launch() on a monitor marked running starts no poll cycle
\* and sets no timeout.
C18_LaunchPostcondition ==
    lastCycle.op = "launch" =>
        /\ detectLoopDelay > 0
        /\ detectLoopDelay = (IF lastCycle.delay <= 0 THEN 500 ELSE lastCycle.delay)
        /\ ~detectLoopStopped
        /\ ~lastCycle.stopped => (nPolls = lastCycle.polls /\ timers = lastCycle.timers)

\* C18 witness: launch() was called twice in a row; one poll cycle was started.
C18_Witness ==
    /\ lastCycle.op = "launch"
    /\ ~lastCycle.stopped
    /\ Len(runs) = 1
    /\ nPolls = 1
    /\ ~detectLoopStopped

\* C21: single poll chain. In every reachable state at most one poll cycle is
\* in progress or scheduled, and every pending timeout is the one recorded in
\* this.timer (so that stop() cancels all pending polls).
C21_SinglePollChain ==
    /\ Len(cycles) + Cardinality(timers) <= 1
    /\ timers \subseteq {timer}

\* C22: the listener's view agrees with the monitor's state. The isOpen values
\* delivered to a listener strictly alternate (no two consecutive broadcasts
\* carry the same value), and whenever no poll cycle is in progress the last
\* value broadcast (false if none) equals the stored isOpen.
C22_ListenerView ==
    /\ [][(listeners # <<>> /\ lastCycle'.op = "poll" /\ lastCycle'.sent = 1
              /\ delivered # "none")
            => delivered' # delivered]_vars
    /\ [](cycles = <<>> => ((delivered = "open") = isOpen))

(***************************************************************************)
(* Properties of antiDevTools (checked under SpecAnti).                    *)
(***************************************************************************)
\* C12: tamper teardown. When the listener of antiDevTools has confirmed a
\* broadcast with isOpen = true while a Player was Active, then once the page's
\* reaction has run (the warning is shown and crashTab has been called) that
\* Player is destroyed: its backend, its tracker and its service registration
\* are torn down.
C12_TamperTeardown ==
    (anti.mode = "listening" /\ anti.tamperWhileActive /\ anti.crashTabRan)
    => (isDestroyed /\ AllTornDown /\ swm.destroyed > 0)

\* C13: persisted inspection flag. Once the crashTab that follows an inspection
\* event has run, the item "devtool" is "open", and it stays so; and on every
\* load that finds it "open" the warning is shown at once and launch() is not
\* called.
C13_PersistedFlag ==
    /\ [](anti.crashTabRan => devtool = "open")
    /\ [][devtool = "open" => devtool' = "open"]_vars
    /\ []((anti.mode # "notrun" /\ anti.flagAtLoad)
             => (anti.mode = "denied" /\ anti.alerts > 0 /\ runs = <<>>))

=============================================================================
